---- MODULE Spec2Model ----
(***************************************************************************)
(* The expense ledger of src/main.py: the lazily initialised SQLite table  *)
(* "expenses" and the four tools add_expense, list_expenses, summarize and *)
(* debug_db_info, each an asynchronous call that suspends at its storage   *)
(* I/O and may be dispatched while another call is in flight.              *)
(*                                                                         *)
(* A TEXT value that is compared for order (a date) is the sequence of its *)
(* characters, each a digit: <<1, 0>> is the text "10".  Texts compared    *)
(* only for equality (category, subcategory, note) are TLA+ strings.       *)
(* An optional argument is <<>> when the caller omits it (Python's default *)
(* applies) and <<v>> when the caller supplies v.  Amounts are small       *)
(* integers, which REAL represents and adds exactly.                       *)
(***************************************************************************)
EXTENDS Integers, Sequences, FiniteSets

VARIABLES
    db_initialized,   \* the module's _db_initialized flag
    schema,           \* definitions of table "expenses" in the database file
    expenses,         \* the committed rows of the table, in insertion order
    sqlite_sequence,  \* AUTOINCREMENT's record of the largest rowid handed out
    pc,               \* where each call is suspended
    call,             \* each call's tool and arguments
    txn,              \* each call's connection: the rows it wrote and has not committed
    result,           \* what each finished call returned or raised
    committed,        \* number of add_expense calls whose commit completed
    creates           \* CREATE TABLE statements ensure_db has run, counted up to 2

vars == <<db_initialized, schema, expenses, sqlite_sequence, pc, call, txn,
          result, committed, creates>>

\* Cap on the add_expense calls of one run (committed or in flight).
MaxRows == 3

\* The calls the host may have in flight at once.
Tasks == {"t1", "t2"}

DB_PATH == "/data/expenses.db"

---------------------------------------------------------------------------
(* Inputs *)

D1 == <<1>>
D10 == <<1, 0>>
D2 == <<2>>

DateTexts == {D1, D10, D2}

AddCalls ==
    { [op |-> "add_expense", date |-> D1, amount |-> 1, category |-> "Travel",
       subcategory |-> <<>>, note |-> <<>>],
      [op |-> "add_expense", date |-> D10, amount |-> 2, category |-> "Travel",
       subcategory |-> <<>>, note |-> <<>>],
      [op |-> "add_expense", date |-> D1, amount |-> 2, category |-> "",
       subcategory |-> <<>>, note |-> <<"cash">>],
      [op |-> "add_expense", date |-> D2, amount |-> 1, category |-> "Food",
       subcategory |-> <<"taxi">>, note |-> <<"">>] }

ListCalls ==
    { [op |-> "list_expenses", start_date |-> r[1], end_date |-> r[2]] :
        r \in {<<D1, D2>>, <<D1, D10>>, <<D10, D2>>, <<D10, D10>>, <<D2, D1>>} }

SummarizeCalls ==
    { [op |-> "summarize", start_date |-> r[1], end_date |-> r[2], category |-> c] :
        r \in {<<D1, D2>>, <<D10, D10>>, <<D2, D1>>},
        c \in {<<>>, <<"">>, <<"Travel">>} }

DebugCalls == { [op |-> "debug_db_info"] }

NoCall == [op |-> "none"]
NoResult == [status |-> "none"]

---------------------------------------------------------------------------
(* SQLite and Python, as the statements of main.py use them *)

\* Variant: an omitted argument is stored as the text of None.
DefaultNone(opt, d) == IF opt = <<>> THEN "None" ELSE opt[1]
\* Python binds a parameter's default when the caller omits it.
Default(opt, d) == IF opt = <<>> THEN d ELSE opt[1]

\* Python's truth value of an optional str: None and "" are both false.
Truthy(opt) == opt # <<>> /\ opt[1] # ""

\* The BINARY collation of a TEXT column: memcmp over the common length,
\* then the shorter text first.  -1, 0 or 1.
RECURSIVE MemCompare(_, _)
MemCompare(a, b) ==
    IF a = <<>> /\ b = <<>> THEN 0
    ELSE IF a = <<>> THEN -1
    ELSE IF b = <<>> THEN 1
    ELSE IF Head(a) < Head(b) THEN -1
    ELSE IF Head(a) > Head(b) THEN 1
    ELSE MemCompare(Tail(a), Tail(b))

\* Variant: the upper bound excluded.
SqlBetweenExclusive(x, lo, hi) == MemCompare(x, lo) >= 0 /\ MemCompare(x, hi) < 0
\* x BETWEEN lo AND hi is x >= lo AND x <= hi.
SqlBetween(x, lo, hi) == MemCompare(x, lo) >= 0 /\ MemCompare(x, hi) <= 0

\* Variant: ORDER BY date DESC, id ASC.
OrderedBeforeIdAsc(r1, r2) ==
    \/ MemCompare(r1.date, r2.date) > 0
    \/ MemCompare(r1.date, r2.date) = 0 /\ r1.id < r2.id
\* ORDER BY date DESC, id DESC: whether r1 sorts before r2.
OrderedBefore(r1, r2) ==
    \/ MemCompare(r1.date, r2.date) > 0
    \/ MemCompare(r1.date, r2.date) = 0 /\ r1.id > r2.id

RECURSIVE InsertOrdered(_, _)
InsertOrdered(r, s) ==
    IF s = <<>> THEN <<r>>
    ELSE IF OrderedBefore(r, Head(s)) THEN <<r>> \o s
    ELSE <<Head(s)>> \o InsertOrdered(r, Tail(s))

RECURSIVE OrderRows(_)
OrderRows(s) == IF s = <<>> THEN <<>> ELSE InsertOrdered(Head(s), OrderRows(Tail(s)))

\* SELECT ... FROM expenses WHERE date BETWEEN ? AND ? ORDER BY date DESC, id DESC
SelectRange(rows, start_date, end_date) ==
    LET InRange(r) == SqlBetween(r.date, start_date, end_date)
    IN OrderRows(SelectSeq(rows, InRange))

\* Variant: the last amount instead of the sum.
SqlSumLastOnly(rows) == IF rows = <<>> THEN 0 ELSE rows[Len(rows)].amount
\* SUM(amount) over the rows of one group.
RECURSIVE SqlSum(_)
SqlSum(rows) == IF rows = <<>> THEN 0 ELSE Head(rows).amount + SqlSum(Tail(rows))

\* Variant: one row too few.
SqlCountOffByOne(rows) == IF rows = <<>> THEN 0 ELSE Len(rows) - 1
\* COUNT(*) over the rows of one group, or of the table.
SqlCount(rows) == Len(rows)

\* The WHERE clause summarize builds: the range, and the category when the
\* argument is truthy.
SummarizeWhere(rows, start_date, end_date, category) ==
    LET Match(r) ==
            /\ SqlBetween(r.date, start_date, end_date)
            /\ Truthy(category) => r.category = category[1]
    IN SelectSeq(rows, Match)

\* GROUP BY category: one output row per category among the matching rows.
GroupByCategory(rows) ==
    LET Group(c) == SelectSeq(rows, LAMBDA r : r.category = c)
    IN { [category |-> c, total_amount |-> SqlSum(Group(c)), count |-> SqlCount(Group(c))] :
           c \in { rows[i].category : i \in 1..Len(rows) } }

\* ORDER BY total_amount DESC: every order of the groups with totals
\* non-increasing; groups of equal total come in an order SQLite does not fix.
OrderByTotalDesc(groups) ==
    { s \in [1..Cardinality(groups) -> groups] :
        /\ \A i, j \in DOMAIN s : i # j => s[i] # s[j]
        /\ \A i \in DOMAIN s : i + 1 \in DOMAIN s => s[i].total_amount >= s[i + 1].total_amount }

\* Variant: CREATE TABLE without IF NOT EXISTS, which raises when the table
\* exists.
CreateTable(defs, rows) ==
    [schema |-> 1, expenses |-> rows, error |-> defs # 0]
\* CREATE TABLE IF NOT EXISTS expenses (...), committed: the database after
\* it, and whether the statement raised.
CreateTableIfNotExists(defs, rows) ==
    IF defs = 0
    THEN [schema |-> 1, expenses |-> <<>>, error |-> FALSE]
    ELSE [schema |-> defs, expenses |-> rows, error |-> FALSE]

\* INTEGER PRIMARY KEY AUTOINCREMENT: one more than the largest rowid ever
\* handed out, which sqlite_sequence records.
RECURSIVE MaxId(_)
MaxId(rows) ==
    IF rows = <<>> THEN 0
    ELSE LET m == MaxId(Tail(rows)) IN IF Head(rows).id > m THEN Head(rows).id ELSE m

\* Variant: the largest rowid handed out, again.
NextRowidNoIncrement(seq, rows) == IF seq > MaxId(rows) THEN seq ELSE MaxId(rows)
\* The rowid of the next inserted row.
NextRowid(seq, rows) == (IF seq > MaxId(rows) THEN seq ELSE MaxId(rows)) + 1

\* The row INSERT INTO expenses (date, amount, category, subcategory, note)
\* VALUES (?, ?, ?, ?, ?) writes for a call.
InsertedRow(c, rowid) ==
    [id |-> rowid, date |-> c.date, amount |-> c.amount, category |-> c.category,
     subcategory |-> Default(c.subcategory, ""), note |-> Default(c.note, "")]

\* Variant: no write lock, every connection writes at once.
WriteLockFreeNoLocking(t) == TRUE
\* SQLite lets one connection write at a time: an INSERT takes the write
\* lock, which the connection holds until it commits.
WriteLockFree(t) == \A u \in Tasks \ {t} : txn[u] = <<>>

\* Variant: the written row takes the place of the last stored row.
CommitRowsReplacingLast(rows, written) ==
    IF rows = <<>> THEN written ELSE SubSeq(rows, 1, Len(rows) - 1) \o written
\* db.commit(): the connection's rows become part of the table.
CommitRows(rows, written) == rows \o written

---------------------------------------------------------------------------
(* The program *)

Init ==
    /\ db_initialized = FALSE
    /\ schema = 0
    /\ expenses = <<>>
    /\ sqlite_sequence = 0
    /\ pc = [t \in Tasks |-> "idle"]
    /\ call = [t \in Tasks |-> NoCall]
    /\ txn = [t \in Tasks |-> <<>>]
    /\ result = [t \in Tasks |-> NoResult]
    /\ committed = 0
    /\ creates = 0

\* add_expense calls that have not yet committed or failed.
AddsInFlight == Cardinality({ t \in Tasks : call[t].op = "add_expense" /\ pc[t] \in {"init", "exec", "commit"} })

\* A dispatched call runs to its first suspension: it enters ensure_db and
\* reads the flag.  The flag is read and later set without a lock, so other
\* calls may run between the read and the CREATE TABLE: this covers every
\* way the host may run the calls (one event loop, threads).
Entered(t, c) ==
    /\ pc' = [pc EXCEPT ![t] = IF db_initialized THEN "exec" ELSE "init"]
    /\ call' = [call EXCEPT ![t] = c]

add_expense(t) ==
    /\ pc[t] = "idle"
    /\ Len(expenses) + AddsInFlight < MaxRows
    /\ \E c \in AddCalls : Entered(t, c)
    /\ UNCHANGED <<db_initialized, schema, expenses, sqlite_sequence, txn, result, committed, creates>>

list_expenses(t) ==
    /\ pc[t] = "idle"
    /\ \E c \in ListCalls : Entered(t, c)
    /\ UNCHANGED <<db_initialized, schema, expenses, sqlite_sequence, txn, result, committed, creates>>

summarize(t) ==
    /\ pc[t] = "idle"
    /\ \E c \in SummarizeCalls : Entered(t, c)
    /\ UNCHANGED <<db_initialized, schema, expenses, sqlite_sequence, txn, result, committed, creates>>

debug_db_info(t) ==
    /\ pc[t] = "idle"
    /\ \E c \in DebugCalls : Entered(t, c)
    /\ UNCHANGED <<db_initialized, schema, expenses, sqlite_sequence, txn, result, committed, creates>>

\* ensure_db past the flag: create the table, commit, set the flag.
ensure_db(t) ==
    /\ pc[t] = "init"
    /\ LET r == CreateTableIfNotExists(schema, expenses) IN
        /\ schema' = r.schema
        /\ expenses' = r.expenses
        /\ IF r.error
           THEN /\ pc' = [pc EXCEPT ![t] = "failed"]
                /\ result' = [result EXCEPT ![t] = [status |-> "error", error |-> "table expenses already exists"]]
                /\ UNCHANGED db_initialized
           ELSE /\ pc' = [pc EXCEPT ![t] = "exec"]
                /\ db_initialized' = TRUE
                /\ UNCHANGED result
    /\ creates' = IF creates < 2 THEN creates + 1 ELSE creates
    /\ UNCHANGED <<sqlite_sequence, call, txn, committed>>

\* A statement against a database without the table raises.
NoSuchTable(t) ==
    /\ pc' = [pc EXCEPT ![t] = "failed"]
    /\ result' = [result EXCEPT ![t] = [status |-> "error", error |-> "no such table: expenses"]]

\* add_expense: db.execute(INSERT ...), the write lock being free.
InsertExecute(t) ==
    /\ pc[t] = "exec"
    /\ call[t].op = "add_expense"
    /\ WriteLockFree(t)
    /\ IF schema = 0
       THEN NoSuchTable(t) /\ UNCHANGED txn
       ELSE /\ txn' = [txn EXCEPT ![t] = <<InsertedRow(call[t], NextRowid(sqlite_sequence, expenses))>>]
            /\ pc' = [pc EXCEPT ![t] = "commit"]
            /\ UNCHANGED result
    /\ UNCHANGED <<db_initialized, schema, expenses, sqlite_sequence, call, committed, creates>>

\* add_expense: db.execute(INSERT ...) while another connection holds the
\* write lock beyond the busy timeout.
InsertBusy(t) ==
    /\ pc[t] = "exec"
    /\ call[t].op = "add_expense"
    /\ ~WriteLockFree(t)
    /\ pc' = [pc EXCEPT ![t] = "failed"]
    /\ result' = [result EXCEPT ![t] = [status |-> "error", error |-> "database is locked"]]
    /\ UNCHANGED <<db_initialized, schema, expenses, sqlite_sequence, call, txn, committed, creates>>

\* add_expense: db.commit() and the return of cur.lastrowid.
InsertCommit(t) ==
    /\ pc[t] = "commit"
    /\ expenses' = CommitRows(expenses, txn[t])
    /\ sqlite_sequence' = txn[t][1].id
    /\ txn' = [txn EXCEPT ![t] = <<>>]
    /\ committed' = committed + 1
    /\ pc' = [pc EXCEPT ![t] = "done"]
    /\ result' = [result EXCEPT ![t] = [status |-> "success", id |-> txn[t][1].id]]
    /\ UNCHANGED <<db_initialized, schema, call, creates>>

\* list_expenses: the SELECT and fetchall.
ListExecute(t) ==
    /\ pc[t] = "exec"
    /\ call[t].op = "list_expenses"
    /\ IF schema = 0
       THEN NoSuchTable(t)
       ELSE /\ pc' = [pc EXCEPT ![t] = "done"]
            /\ result' = [result EXCEPT ![t] = SelectRange(expenses, call[t].start_date, call[t].end_date)]
    /\ UNCHANGED <<db_initialized, schema, expenses, sqlite_sequence, call, txn, committed, creates>>

\* summarize: the built query and fetchall.
SummarizeExecute(t) ==
    /\ pc[t] = "exec"
    /\ call[t].op = "summarize"
    /\ IF schema = 0
       THEN NoSuchTable(t)
       ELSE /\ pc' = [pc EXCEPT ![t] = "done"]
            /\ \E s \in OrderByTotalDesc(GroupByCategory(
                    SummarizeWhere(expenses, call[t].start_date, call[t].end_date, call[t].category))) :
                 result' = [result EXCEPT ![t] = s]
    /\ UNCHANGED <<db_initialized, schema, expenses, sqlite_sequence, call, txn, committed, creates>>

\* debug_db_info: SELECT COUNT(*) FROM expenses and the returned record.
DebugExecute(t) ==
    /\ pc[t] = "exec"
    /\ call[t].op = "debug_db_info"
    /\ IF schema = 0
       THEN NoSuchTable(t)
       ELSE /\ pc' = [pc EXCEPT ![t] = "done"]
            /\ result' = [result EXCEPT ![t] =
                 [db_path |-> DB_PATH, exists |-> TRUE, total_rows |-> SqlCount(expenses)]]
    /\ UNCHANGED <<db_initialized, schema, expenses, sqlite_sequence, call, txn, committed, creates>>

\* The host takes a call's result (or its exception).
Return(t) ==
    /\ pc[t] \in {"done", "failed"}
    /\ pc' = [pc EXCEPT ![t] = "idle"]
    /\ call' = [call EXCEPT ![t] = NoCall]
    /\ result' = [result EXCEPT ![t] = NoResult]
    /\ UNCHANGED <<db_initialized, schema, expenses, sqlite_sequence, txn, committed, creates>>

\* The server process is started again over the same database file: the
\* module is loaded afresh and the flag is False again.
Restart ==
    /\ \A t \in Tasks : pc[t] = "idle"
    /\ db_initialized
    /\ db_initialized' = FALSE
    /\ UNCHANGED <<schema, expenses, sqlite_sequence, pc, call, txn, result, committed, creates>>

Next ==
    \/ \E t \in Tasks : add_expense(t)
    \/ \E t \in Tasks : list_expenses(t)
    \/ \E t \in Tasks : summarize(t)
    \/ \E t \in Tasks : debug_db_info(t)
    \/ \E t \in Tasks : ensure_db(t)
    \/ \E t \in Tasks : InsertExecute(t)
    \/ \E t \in Tasks : InsertBusy(t)
    \/ \E t \in Tasks : InsertCommit(t)
    \/ \E t \in Tasks : ListExecute(t)
    \/ \E t \in Tasks : SummarizeExecute(t)
    \/ \E t \in Tasks : DebugExecute(t)
    \/ \E t \in Tasks : Return(t)
    \/ Restart

Spec == Init /\ [][Next]_vars

---------------------------------------------------------------------------
(* What the claims speak of *)

Rows == { expenses[i] : i \in 1..Len(expenses) }
Elems(s) == { s[i] : i \in DOMAIN s }

\* Lexical order of two texts: a is a prefix of b, or a has the smaller
\* character at the first place where they differ.
LexLeq(a, b) ==
    \/ Len(a) <= Len(b) /\ \A i \in 1..Len(a) : a[i] = b[i]
    \/ \E k \in 1..Len(a) :
         /\ k <= Len(b)
         /\ a[k] < b[k]
         /\ \A j \in 1..(k - 1) : a[j] = b[j]

InRangeRows(start_date, end_date) ==
    { r \in Rows : LexLeq(start_date, r.date) /\ LexLeq(r.date, end_date) }

RECURSIVE TotalOf(_)
TotalOf(S) ==
    IF S = {} THEN 0 ELSE LET r == CHOOSE x \in S : TRUE IN r.amount + TotalOf(S \ {r})

\* The step in which call t, suspended before its statement, executes it.
Executes(t, op) == pc[t] = "exec" /\ call[t].op = op /\ pc'[t] # "exec"

Succeeded(t) == pc[t] = "done" /\ call[t].op = "add_expense" /\ result[t].status = "success"
Listed(t) == pc[t] = "done" /\ call[t].op = "list_expenses"
Summarized(t) == pc[t] = "done" /\ call[t].op = "summarize"

\* C1: list_expenses(start_date, end_date) returns exactly the stored rows
\* whose date d has start_date <= d <= end_date in lexical order, each once,
\* and the empty sequence (no error) when start_date > end_date.
C1_ListReturnsTheRange ==
    [][\A t \in Tasks : Executes(t, "list_expenses") =>
        /\ pc'[t] = "done"
        /\ Elems(result'[t]) = InRangeRows(call[t].start_date, call[t].end_date)
        /\ \A i, j \in DOMAIN result'[t] : i # j => result'[t][i] # result'[t][j]
        /\ ~LexLeq(call[t].start_date, call[t].end_date) => result'[t] = <<>>]_vars

\* One list returned a row and left out a stored row outside its range,
\* another was given start_date > end_date over a non-empty table.
C1_Witness ==
    \E t, u \in Tasks :
        /\ Listed(t) /\ Len(result[t]) >= 1
        /\ \E r \in Rows : ~(LexLeq(call[t].start_date, r.date) /\ LexLeq(r.date, call[t].end_date))
        /\ Listed(u) /\ ~LexLeq(call[u].start_date, call[u].end_date)
        /\ result[u] = <<>>

\* C2: after add_expense(date, amount, category) returned success with an
\* id, a list_expenses whose range contains date returns exactly one row
\* with that id, carrying the supplied date, amount and category, and ""
\* for subcategory and note when the caller omitted them.
C2_InsertThenRead ==
    [][\A t, u \in Tasks :
        ( /\ Executes(t, "list_expenses")
          /\ Succeeded(u)
          /\ LexLeq(call[t].start_date, call[u].date)
          /\ LexLeq(call[u].date, call[t].end_date) ) =>
        /\ pc'[t] = "done"
        /\ Cardinality({ i \in DOMAIN result'[t] : result'[t][i].id = result[u].id }) = 1
        /\ \A i \in DOMAIN result'[t] : result'[t][i].id = result[u].id =>
             /\ result'[t][i].date = call[u].date
             /\ result'[t][i].amount = call[u].amount
             /\ result'[t][i].category = call[u].category
             /\ call[u].subcategory = <<>> => result'[t][i].subcategory = ""
             /\ call[u].note = <<>> => result'[t][i].note = ""]_vars

\* An add_expense without subcategory and note has returned its id, and a
\* list_expenses has returned the row of that id.
C2_Witness ==
    \E t, u \in Tasks :
        /\ Succeeded(u) /\ call[u].subcategory = <<>> /\ call[u].note = <<>>
        /\ Listed(t)
        /\ \E i \in DOMAIN result[t] : result[t][i].id = result[u].id

\* C3: the rows list_expenses returns are sorted by date descending and,
\* for equal dates, by id descending.
C3_ListIsOrdered ==
    \A t \in Tasks : Listed(t) =>
        \A i \in 1..(Len(result[t]) - 1) :
            LET r1 == result[t][i]
                r2 == result[t][i + 1]
            IN \/ ~LexLeq(r1.date, r2.date)
               \/ r1.date = r2.date /\ r1.id > r2.id

\* A list returned three rows, two of them of the same date.
C3_Witness ==
    \E t \in Tasks :
        /\ Listed(t) /\ Len(result[t]) = 3
        /\ result[t][1].date # result[t][2].date
        /\ result[t][2].date = result[t][3].date

\* C4: summarize without a category returns one bucket for each category
\* with a stored row in range and none for any other; a bucket's total is
\* the sum of amount and its count the number of that category's rows in
\* range, so no bucket has count 0.
C4_SummarizeBuckets ==
    [][\A t \in Tasks : (Executes(t, "summarize") /\ call[t].category = <<>>) =>
        LET inr == InRangeRows(call[t].start_date, call[t].end_date)
            res == result'[t]
        IN /\ pc'[t] = "done"
           /\ { res[i].category : i \in DOMAIN res } = { r.category : r \in inr }
           /\ \A i, j \in DOMAIN res : i # j => res[i].category # res[j].category
           /\ \A i \in DOMAIN res :
                LET grp == { r \in inr : r.category = res[i].category }
                IN /\ res[i].total_amount = TotalOf(grp)
                   /\ res[i].count = Cardinality(grp)
                   /\ res[i].count > 0]_vars

\* A summarize without category returned a bucket of two rows while a
\* third stored row of that category lay outside its range.
C4_Witness ==
    \E t \in Tasks :
        /\ Summarized(t) /\ call[t].category = <<>>
        /\ \E i \in DOMAIN result[t] :
             /\ result[t][i].count = 2
             /\ result[t][i].total_amount = 4
             /\ \E r \in Rows :
                  /\ r.category = result[t][i].category
                  /\ ~(LexLeq(call[t].start_date, r.date) /\ LexLeq(r.date, call[t].end_date))

\* C5: whenever a category argument is provided to summarize (the empty
\* string included), the result is the single bucket of that category over
\* the in-range rows whose category equals the argument, or the empty
\* sequence when no in-range row has that category.
C5_SummarizeFilter ==
    [][\A t \in Tasks : (Executes(t, "summarize") /\ call[t].category # <<>>) =>
        LET grp == { r \in InRangeRows(call[t].start_date, call[t].end_date) :
                      r.category = call[t].category[1] }
            res == result'[t]
        IN /\ pc'[t] = "done"
           /\ grp = {} => res = <<>>
           /\ grp # {} => res = << [category |-> call[t].category[1],
                                   total_amount |-> TotalOf(grp),
                                   count |-> Cardinality(grp)] >>]_vars

\* C6: debug_db_info's total_rows equals the number of rows a list_expenses
\* over a range covering every stored date returns, and the number of
\* add_expense calls that have committed.
C6_TotalRows ==
    [][\A t \in Tasks : Executes(t, "debug_db_info") =>
        /\ pc'[t] = "done"
        /\ result'[t].total_rows = committed
        /\ \A s, e \in DateTexts :
             (\A r \in Rows : LexLeq(s, r.date) /\ LexLeq(r.date, e)) =>
                result'[t].total_rows = Len(SelectRange(expenses, s, e))]_vars

\* A debug_db_info has returned the count of a table of two rows.
C6_Witness ==
    \E t \in Tasks :
        /\ pc[t] = "done" /\ call[t].op = "debug_db_info"
        /\ result[t].total_rows = 2 /\ committed = 2

\* C7: the table is append-only: a stored row stays, unchanged, in every
\* later state; list_expenses, summarize and debug_db_info leave the rows
\* unchanged, and only add_expense changes them, by adding one new row.
C7_AppendOnly ==
    [][/\ \A i \in 1..Len(expenses) : i <= Len(expenses') /\ expenses'[i] = expenses[i]
       /\ \A t \in Tasks : \A op \in {"list_expenses", "summarize", "debug_db_info"} :
            Executes(t, op) => expenses' = expenses
       /\ expenses' # expenses =>
            /\ Len(expenses') = Len(expenses) + 1
            /\ \A r \in Rows : r.id # expenses'[Len(expenses')].id
            /\ \E t \in Tasks : call[t].op = "add_expense" /\ pc[t] = "commit" /\ pc'[t] = "done"]_vars

\* Two rows are stored, ensure_db has run over the existing table, and a
\* read has returned since.
C7_Witness ==
    /\ Len(expenses) = 2
    /\ creates = 2
    /\ \E t \in Tasks : Listed(t) \/ Summarized(t)

\* C8: no two stored rows share an id, and the id each successful
\* add_expense returns is greater than the id of every row stored before it.
C8_IdsIncrease ==
    [][/\ \A i, j \in 1..Len(expenses') : i < j => expenses'[i].id < expenses'[j].id
       /\ \A t \in Tasks : (pc[t] = "commit" /\ pc'[t] = "done") =>
            \A r \in Rows : result'[t].id > r.id]_vars

\* Two add_expense calls have returned ids over a table of two rows.
C8_Witness ==
    /\ Len(expenses) = 2
    /\ \A t \in Tasks : Succeeded(t)

\* C9: after any number of ensure_db calls, sequential or interleaved before
\* the first has completed, one expenses table with one definition exists,
\* no call fails because the table already exists, stored rows are
\* untouched, and a call executes its statement only after the table exists.
C9_EnsureDbIdempotent ==
    [][/\ schema' <= 1
       /\ \A t \in Tasks :
            /\ pc'[t] = "failed" => result'[t].error = "database is locked"
            /\ pc'[t] \in {"exec", "commit", "done"} => schema' = 1
            /\ (pc[t] = "init" /\ pc'[t] # "init") =>
                 /\ pc'[t] = "exec"
                 /\ db_initialized'
                 /\ schema' = 1
                 /\ expenses' = expenses]_vars

\* ensure_db has created the table more than once, the later time over
\* stored rows, and both calls are past it.
C9_Witness ==
    /\ creates = 2
    /\ schema = 1
    /\ Len(expenses) >= 1
    /\ \A t \in Tasks : pc[t] \in {"exec", "commit", "done"}

\* C10: concurrent add_expense calls never lose an insert: the table holds
\* one row per committed call, the id each call returned identifies the row
\* with that call's values, returned ids are pairwise distinct, and a
\* reader sees a new row completely or not at all.
C10_NoLostInsert ==
    /\ Len(expenses) = committed
    /\ \A t \in Tasks : Succeeded(t) =>
         /\ Cardinality({ i \in 1..Len(expenses) : expenses[i].id = result[t].id }) = 1
         /\ \A r \in Rows : r.id = result[t].id =>
              /\ r.date = call[t].date
              /\ r.amount = call[t].amount
              /\ r.category = call[t].category
              /\ r.subcategory = (IF call[t].subcategory = <<>> THEN "" ELSE call[t].subcategory[1])
              /\ r.note = (IF call[t].note = <<>> THEN "" ELSE call[t].note[1])
         /\ \A u \in Tasks \ {t} : Succeeded(u) => result[u].id # result[t].id
    /\ \A t \in Tasks : Listed(t) => Elems(result[t]) \subseteq Rows
    /\ \A t \in Tasks : txn[t] # <<>> =>
         \A u \in Tasks : Listed(u) => \A i \in DOMAIN result[u] : result[u][i].id # txn[t][1].id

\* Both calls in flight are add_expense calls that have returned success.
C10_Witness ==
    /\ \A t \in Tasks : Succeeded(t)
    /\ committed = 2

====
